---- MODULE Spec2Model ----
(***************************************************************************)
(* Model of the Clarity test tooling:                                      *)
(*   scripts/run_tests_with_coverage.py  (CoverageTestRunner and main)     *)
(*   test/wokwi/integration_test.py      (ClarityIntegrationTest and main) *)
(*   test/wokwi/quick_test.py            (run_command and main)            *)
(* The coverage parser and the threshold validator are operators computed  *)
(* the way the Python code computes them; the full run is a state machine  *)
(* with one action per step of run_all_tests / main.                       *)
(***************************************************************************)
EXTENDS Integers, Sequences, FiniteSets, TLC

\* Largest number of summary lines in a modelled lcov output.
MaxLines == 3

\* Largest number of fragments in a modelled line of serial output.
MaxFragments == 2

\* Largest number of calls of update_test_phases made with one line.
MaxCalls == 2

VARIABLES
    \* ---- main() / CoverageTestRunner.run_all_tests ----
    args,                \* parsed command line (argparse namespace)
    pc,                  \* position in main / run_all_tests
    unit_result, integration_result, performance_result, memory_result,
    coverage_generated, coverage_data, coverage_passed, overall_result,
    report_file,         \* contents written to coverage/test_report.json, in order
    exit_codes,          \* exit status handed to sys.exit, once the process ends
    invoked,             \* external invocations made so far, with their outcome
    \* ---- one call of parse_coverage_results ----
    parse_pc, coverage_file_exists, lcov_launched, lcov_stdout, parse_result,
    \* ---- one call of validate_coverage_thresholds ----
    validate_pc, validate_input, validate_result,
    \* ---- calls of update_test_phases on one line ----
    upd_calls,           \* number of calls made with upd_line
    upd_line, upd_before, upd_phases,
    \* ---- integration_test.py: main() / run_wokwi_test ----
    w_pc,                \* position in main / run_full_test / run_wokwi_test
    test_phases,         \* the dict test_phases of run_wokwi_test
    sim,                 \* the simulator process: none, running, exited, terminated
    process_bound,       \* whether the local variable process is assigned
    returncode,          \* process.returncode once wait() has returned
    w_exit_codes,        \* exit status of the interpreter, once it has ended
    interrupt_at,        \* where a KeyboardInterrupt arrived ("" if none did)
    triggered,           \* phases of which some line read so far held a trigger
    \* ---- quick_test.py: main() / run_command ----
    q_pc,                \* position in main
    q_steps,             \* the calls of run_command made so far, with what happened
    q_success,           \* the value main() returned, once it has
    q_exit_codes         \* exit status of the interpreter, once it has ended

pipeline_vars == <<args, pc, unit_result, integration_result, performance_result,
                   memory_result, coverage_generated, coverage_data, coverage_passed,
                   overall_result, report_file, exit_codes, invoked>>
parse_vars == <<parse_pc, coverage_file_exists, lcov_launched, lcov_stdout, parse_result>>
validate_vars == <<validate_pc, validate_input, validate_result>>
update_vars == <<upd_calls, upd_line, upd_before, upd_phases>>
wokwi_vars == <<w_pc, test_phases, sim, process_bound, returncode, w_exit_codes,
                interrupt_at, triggered>>
quick_vars == <<q_pc, q_steps, q_success, q_exit_codes>>
vars == <<pipeline_vars, parse_vars, validate_vars, update_vars, wokwi_vars, quick_vars>>

(***************************************************************************)
(* Text.  A text is a sequence of items: words (maximal runs of            *)
(* non-whitespace characters, written as strings), the newline character   *)
(* NL, and BSN, the two-character sequence backslash, n.  Words that       *)
(* follow each other are separated by blanks.  A word is made of atoms: a  *)
(* numeral followed by the character %, or the word itself.                *)
(***************************************************************************)
NL == "\n"
BSN == "\\n"
WordAtoms == ("96%" :> <<"96", "%">>) @@ ("90%" :> <<"90", "%">>) @@ ("n/a%" :> <<"n/a", "%">>)
Atoms(word) == IF word \in DOMAIN WordAtoms THEN WordAtoms[word] ELSE <<word>>

LinesLabel == "lines......:"
FunctionsLabel == "functions..:"
BranchesLabel == "branches...:"
Labels == {LinesLabel, FunctionsLabel, BranchesLabel}

MetricNames == {"line_coverage", "function_coverage", "branch_coverage"}

\* The decimal numerals that occur in the modelled texts, with their value.
Numeral == ("96" :> 96) @@ ("90" :> 90) @@ ("70" :> 70)

\* Python values: None and a dict, kept apart by a tag.
EmptyDict == [m \in {} |-> 0]
None == [isNone |-> TRUE, data |-> EmptyDict]
Dict(d) == [isNone |-> FALSE, data |-> d]

\* d[k] = v
SetItem(d, k, v) == [x \in (DOMAIN d) \cup {k} |-> IF x = k THEN v ELSE d[x]]

\* d.get(k, default)
Get(d, k, default) == IF k \in DOMAIN d THEN d[k] ELSE default

\* str.split(sep): cut the text at every occurrence of the separator item.
RECURSIVE split(_, _)
split(text, sep) ==
    IF \E i \in 1..Len(text) : text[i] = sep
    THEN LET i == CHOOSE k \in 1..Len(text) :
                      /\ text[k] = sep
                      /\ \A j \in 1..(k - 1) : text[j] # sep
         IN  <<SubSeq(text, 1, i - 1)>> \o split(SubSeq(text, i + 1, Len(text)), sep)
    ELSE <<text>>

\* line.split(): the words of the line; blanks and newlines are whitespace.
RECURSIVE split_whitespace(_)
split_whitespace(line) ==
    IF line = <<>> THEN <<>>
    ELSE IF Head(line) # NL
         THEN <<Atoms(Head(line))>> \o split_whitespace(Tail(line))
         ELSE split_whitespace(Tail(line))

\* label in line: substring containment.  A label holds no whitespace, so it
\* lies inside one word.
contains(label, line) ==
    \E i \in 1..Len(line) :
        /\ line[i] # NL
        /\ \E k \in 1..Len(Atoms(line[i])) : Atoms(line[i])[k] = label

\* token.rstrip('%')
RECURSIVE rstrip(_, _)
rstrip(token, ch) ==
    IF token # <<>> /\ token[Len(token)] = ch
    THEN rstrip(SubSeq(token, 1, Len(token) - 1), ch)
    ELSE token

\* float(s) succeeds exactly on a numeral; anything else raises ValueError.
is_float(s) == Len(s) = 1 /\ s[1] \in DOMAIN Numeral
float(s) == Numeral[s[1]]

\* coverage_data[metric] = float(parts[1].rstrip('%')); raised is set when
\* parts[1] does not exist (IndexError) or is not a number (ValueError).
store_metric(data, metric, parts) ==
    IF Len(parts) < 2
    THEN [raised |-> TRUE, data |-> data]
    ELSE LET s == rstrip(parts[2], "%")
         IN  IF is_float(s)
             THEN [raised |-> FALSE, data |-> SetItem(data, metric, float(s))]
             ELSE [raised |-> TRUE, data |-> data]

\* The body of the for loop of parse_coverage_results.
parse_line(data, line) ==
    IF contains(LinesLabel, line)
    THEN store_metric(data, "line_coverage", split_whitespace(line))
    ELSE IF contains(FunctionsLabel, line)
    THEN store_metric(data, "function_coverage", split_whitespace(line))
    ELSE IF contains(BranchesLabel, line)
    THEN store_metric(data, "branch_coverage", split_whitespace(line))
    ELSE [raised |-> FALSE, data |-> data]

\* The for loop; an exception leaves it for the except clause (return None).
RECURSIVE parse_lines(_, _, _)
parse_lines(lines, i, data) ==
    IF i > Len(lines) THEN Dict(data)
    ELSE LET r == parse_line(data, lines[i])
         IN  IF r.raised THEN None ELSE parse_lines(lines, i + 1, r.data)

\* result.stdout.split('\\n'): the separator written in the source is the
\* two characters backslash and n.
stdout_lines(stdout) == split(stdout, BSN)

\* parse_coverage_results ending in "return coverage_data or None".
parse_coverage_results_or_none(exists, launched, stdout) ==
    IF ~exists THEN None
    ELSE IF ~launched THEN None
    ELSE LET r == parse_lines(split(stdout, BSN), 1, EmptyDict)
         IN  IF r.data = EmptyDict THEN None ELSE r

\* parse_coverage_results: exists is coverage_file.exists(), launched is
\* whether subprocess.run could start lcov (it raises otherwise, and the
\* except clause returns None), stdout is lcov's output.
parse_coverage_results(exists, launched, stdout) ==
    IF ~exists THEN None
    ELSE IF ~launched THEN None
    ELSE parse_lines(stdout_lines(stdout), 1, EmptyDict)

thresholds == [line_coverage |-> 85, function_coverage |-> 95, branch_coverage |-> 80]

\* not coverage_data
falsy(cd) == cd.isNone \/ cd.data = EmptyDict

\* The threshold loop with "if actual <= threshold".
metric_below_or_equal(data, metric) ==
    (IF metric \in DOMAIN data THEN data[metric] ELSE 0) <= thresholds[metric]

\* The threshold loop looking only at the metrics that were measured.
metric_below_present_only(data, metric) ==
    metric \in DOMAIN data /\ data[metric] < thresholds[metric]

\* One round of the threshold loop: the metric leaves passed alone unless
\* actual < threshold.
metric_below(data, metric) == Get(data, metric, 0) < thresholds[metric]

validate_coverage_thresholds(cd) ==
    IF falsy(cd) THEN FALSE
    ELSE \A metric \in DOMAIN thresholds : ~metric_below(cd.data, metric)

(***************************************************************************)
(* Inputs.                                                                 *)
(***************************************************************************)
Tokens == DOMAIN WordAtoms

LineShapes ==
    {<<>>, <<"Summary", "coverage">>} \cup {<<l, t>> : l \in Labels, t \in Tokens}

\* The texts of at most n lines, the lines separated by NL or BSN.
RECURSIVE TextsUpTo(_)
TextsUpTo(n) ==
    IF n = 1 THEN LineShapes
    ELSE LET shorter == TextsUpTo(n - 1)
         IN  shorter \cup {t \o <<s>> \o l : t \in shorter, s \in {NL, BSN}, l \in LineShapes}

Texts == TextsUpTo(MaxLines)

CovValues == {0, 79, 80, 84, 85, 90, 93, 94, 95, 100}

MetricSets == UNION {[ms -> CovValues] : ms \in SUBSET MetricNames}

\* Every value parse_coverage_results can return on the modelled inputs.
ParseOutcomes ==
    {parse_coverage_results(e, l, t) : e \in BOOLEAN, l \in BOOLEAN, t \in Texts}

(***************************************************************************)
(* integration_test.py: the phase tracker.  A line of serial output is a   *)
(* sequence of fragments written one after the other; a fragment is one of *)
(* the trigger strings or a piece of other text, and no trigger lies       *)
(* across two fragments.                                                   *)
(***************************************************************************)
\* The dict patterns of update_test_phases.
patterns ==
    [startup |-> <<"SplashPanel loaded successfully", "OemOilPanel loaded successfully">>,
     sensor_interaction |-> <<"Pressure reading changed", "Temperature reading changed",
                              "Gauge animation">>,
     theme_trigger |-> <<"Theme changed to Night", "KeyPresentActivate",
                         "LockEngagedActivate", "Theme changed to Day">>,
     error_system |-> <<"ErrorOccurredActivate", "Error navigation", "Error resolution">>,
     configuration |-> <<"Config panel", "Theme configuration", "Config exit">>]

\* test_phases as run_wokwi_test creates it.
initial_test_phases ==
    [startup |-> FALSE, sensor_interaction |-> FALSE, theme_trigger |-> FALSE,
     error_system |-> FALSE, configuration |-> FALSE]

\* pattern in line
pattern_in_line(pattern, line) == \E i \in 1..Len(line) : line[i] = pattern

\* The inner loop with "pattern == line.strip()" for "pattern in line".
phase_matches_whole_line(line, phase) ==
    \E k \in 1..Len(patterns[phase]) : line = <<patterns[phase][k]>>

\* The inner loop: whether some pattern of the phase is in the line.
phase_matches(line, phase) ==
    \E k \in 1..Len(patterns[phase]) : pattern_in_line(patterns[phase][k], line)

\* update_test_phases recomputing every phase from the line alone.
update_test_phases_reset(line, phases) ==
    [phase \in DOMAIN phases |-> phase_matches(line, phase)]

\* The phases in the order in which the dict patterns lists them.
PhaseOrder == <<"startup", "sensor_interaction", "theme_trigger", "error_system",
                "configuration">>

\* update_test_phases leaving both loops at the first match.
update_test_phases_first_only(line, phases) ==
    LET open == {k \in 1..Len(PhaseOrder) :
                    ~phases[PhaseOrder[k]] /\ phase_matches(line, PhaseOrder[k])}
    IN  [phase \in DOMAIN phases |->
            IF open # {} /\ phase = PhaseOrder[CHOOSE k \in open : \A j \in open : k <= j]
            THEN TRUE ELSE phases[phase]]

\* update_test_phases without "if not phases[phase]" and with
\* phases[phase] = not phases[phase].
update_test_phases_toggle(line, phases) ==
    [phase \in DOMAIN phases |->
        IF phase_matches(line, phase) THEN ~phases[phase] ELSE phases[phase]]

\* update_test_phases with phases[pattern] = True.
update_test_phases_by_pattern(line, phases) ==
    LET hits == {pattern \in UNION {{patterns[ph][k] : k \in 1..Len(patterns[ph])} :
                                        ph \in DOMAIN patterns} :
                    pattern_in_line(pattern, line)}
    IN  [key \in (DOMAIN phases) \cup hits |->
            IF key \in hits THEN TRUE ELSE phases[key]]

\* update_test_phases: the dict after the call.  A phase that is complete is
\* left alone; one that is not becomes complete when a pattern of it is in
\* the line.
update_test_phases(line, phases) ==
    [phase \in DOMAIN phases |->
        IF ~phases[phase]
        THEN (IF phase_matches(line, phase) THEN TRUE ELSE phases[phase])
        ELSE phases[phase]]

Triggers == UNION {{patterns[ph][k] : k \in 1..Len(patterns[ph])} : ph \in DOMAIN patterns}
OtherFragments == {"[1234] ", "gauge animation", "Config"}
Fragments == Triggers \cup OtherFragments
SerialLines == UNION {[1..n -> Fragments] : n \in 0..MaxFragments}
PhaseStates == [DOMAIN patterns -> BOOLEAN]

(***************************************************************************)
(* main() and CoverageTestRunner.run_all_tests.                            *)
(***************************************************************************)
\* What subprocess.run does for a stage: the tool exits with zero, exits
\* with a nonzero status, cannot be started (FileNotFoundError), or never
\* exits.
StageOutcomes == {"zero", "nonzero", "notfound", "hang"}
Stages == {"unit", "integration", "performance", "memory"}
Timestamps == {"2025-01-01T00:00:00+00:00", ""}

ArgSets == [unit_only : BOOLEAN, integration_only : BOOLEAN, performance_only : BOOLEAN,
            memory_only : BOOLEAN, skip_performance : BOOLEAN, skip_memory : BOOLEAN]

NoArgs == [unit_only |-> FALSE, integration_only |-> FALSE, performance_only |-> FALSE,
           memory_only |-> FALSE, skip_performance |-> FALSE, skip_memory |-> FALSE]

\* parser.parse_args() with a mutually exclusive group of the selectors and
\* the skip flags.
parse_args_exclusive(a) ==
    ~((a.unit_only \/ a.integration_only \/ a.performance_only \/ a.memory_only)
      /\ (a.skip_performance \/ a.skip_memory))

\* parser.parse_args(): every option is an independent store_true flag, no
\* combination of them is an error.
parse_args(a) == TRUE

\* The if/elif chain of main with its branches in the opposite order.
Mode_last_selector ==
    IF args.memory_only THEN "memory_only"
    ELSE IF args.performance_only THEN "performance_only"
    ELSE IF args.integration_only THEN "integration_only"
    ELSE IF args.unit_only THEN "unit_only"
    ELSE "full"

\* The if/elif chain of main.
Mode ==
    IF args.unit_only THEN "unit_only"
    ELSE IF args.integration_only THEN "integration_only"
    ELSE IF args.performance_only THEN "performance_only"
    ELSE IF args.memory_only THEN "memory_only"
    ELSE "full"

\* A stage function returning True whenever the tool could be run.
returncode_ignored(outcome) == outcome \in {"zero", "nonzero"}

\* return result.returncode == 0
returncode_ok(outcome) == outcome = "zero"

\* The stage functions catch subprocess.CalledProcessError only; subprocess.run
\* without check=True never raises it, and the error of a tool that cannot be
\* started is not one: it leaves the stage function.
propagates(outcome) == outcome = "notfound"

\* The stage functions call subprocess.run without timeout=: the call returns
\* when the tool exits, and not before.
blocks(outcome) == outcome = "hang"

\* A skipped stage defaulting to failed.
skipped_default_fail == FALSE

\* performance_result = True / memory_result = True: "Default to pass if skipped"
skipped_default == TRUE

\* run_all_tests going back to the unit stage after a failed stage.
proceed_retry(result, next) == IF result THEN next ELSE "unit"

\* run_all_tests leaving for the summary at the first failed stage.
proceed_fail_fast(result, next) == IF result THEN next ELSE "summary"

\* Statements of run_all_tests follow each other: the result of a stage is
\* not consulted before the next one starts.
proceed(result, next) == next

\* "PASS" if result else "FAIL"
pass_fail(result) == IF result THEN "PASS" ELSE "FAIL"

\* return 0 if success else 1
exit_status(success) == IF success THEN 0 ELSE 1

\* generate_coverage_report without the "if not gcov_files" check.
generate_coverage_report_no_check(outcome) == outcome # "error"

\* generate_coverage_report: no .gcno file found, an exception while running
\* gcov or writing the text report, or success.
CoverageOutcomes == {"nofiles", "error", "ok"}
generate_coverage_report(outcome) ==
    IF outcome = "nofiles" THEN FALSE
    ELSE IF outcome = "error" THEN FALSE
    ELSE TRUE

\* The report dictionary of generate_test_report.
test_report(u, i, cd, p, m, ts) ==
    [test_results |-> [unit_tests |-> pass_fail(u),
                       integration_tests |-> pass_fail(i),
                       performance_tests |-> pass_fail(p),
                       memory_tests |-> pass_fail(m)],
     coverage |-> IF falsy(cd) THEN EmptyDict ELSE cd.data,
     timestamp |-> ts]

\* overall_result without the memory flag.
overall_without_memory(u, i, p, m, cg, cp) == u /\ i /\ p /\ cg /\ cp

\* overall_result of run_all_tests.
overall(u, i, p, m, cg, cp) == u /\ i /\ p /\ m /\ cg /\ cp

Invoke(step, outcome) == invoked' = Append(invoked, [step |-> step, outcome |-> outcome])
WasInvoked(step) == \E k \in 1..Len(invoked) : invoked[k].step = step

\* An uncaught exception ends the interpreter with status 1.
Raise == pc' = "raised" /\ exit_codes' = Append(exit_codes, 1)
\* sys.exit(main())
Return(code) == pc' = "done" /\ exit_codes' = Append(exit_codes, code)

\* Locals that are not assigned yet are shown as FALSE / None.
PipelineStart(a) ==
    /\ args = a
    /\ pc = "main"
    /\ unit_result = FALSE
    /\ integration_result = FALSE
    /\ performance_result = FALSE
    /\ memory_result = FALSE
    /\ coverage_generated = FALSE
    /\ coverage_data = None
    /\ coverage_passed = FALSE
    /\ overall_result = FALSE
    /\ report_file = <<>>
    /\ exit_codes = <<>>
    /\ invoked = <<>>

ParseIdle ==
    /\ parse_pc = "idle"
    /\ coverage_file_exists = FALSE
    /\ lcov_launched = FALSE
    /\ lcov_stdout = <<>>
    /\ parse_result = None

ValidateIdle ==
    /\ validate_pc = "idle"
    /\ validate_input = None
    /\ validate_result = FALSE

UpdateIdle ==
    /\ upd_calls = 0
    /\ upd_line = <<>>
    /\ upd_before = initial_test_phases
    /\ upd_phases = initial_test_phases

\* integration_test.py when the interpreter enters main().
WokwiStart ==
    /\ w_pc = "main"
    /\ test_phases = initial_test_phases
    /\ sim = "none"
    /\ process_bound = FALSE
    /\ returncode = <<>>
    /\ w_exit_codes = <<>>
    /\ interrupt_at = ""
    /\ triggered = {}

\* quick_test.py when the interpreter enters main().
QuickStart ==
    /\ q_pc = "pio_check"
    /\ q_steps = <<>>
    /\ q_success = <<>>
    /\ q_exit_codes = <<>>

\* argparse ends the process with status 2 on a command line it rejects.
Main ==
    /\ pc = "main"
    /\ UNCHANGED <<parse_vars, validate_vars, update_vars, wokwi_vars, quick_vars>>
    /\ IF ~parse_args(args)
       THEN pc' = "rejected" /\ exit_codes' = Append(exit_codes, 2)
       ELSE /\ pc' = IF Mode = "unit_only" THEN "unit"
                     ELSE IF Mode = "integration_only" THEN "integration"
                     ELSE IF Mode = "performance_only" THEN "performance"
                     ELSE IF Mode = "memory_only" THEN "memory"
                     ELSE "setup"
            /\ UNCHANGED exit_codes
    /\ UNCHANGED <<args, unit_result, integration_result, performance_result,
                   memory_result, coverage_generated, coverage_data, coverage_passed,
                   overall_result, report_file, invoked>>

\* setup_coverage_environment: mkdir(exist_ok=True) succeeds or raises.
Setup ==
    /\ pc = "setup"
    /\ UNCHANGED <<parse_vars, validate_vars, update_vars, wokwi_vars, quick_vars>>
    /\ \E o \in {"ok", "error"} :
        /\ Invoke("setup", o)
        /\ IF o = "error" THEN Raise
           ELSE pc' = "unit" /\ UNCHANGED exit_codes
    /\ UNCHANGED <<args, unit_result, integration_result, performance_result,
                   memory_result, coverage_generated, coverage_data, coverage_passed,
                   overall_result, report_file>>

RunUnit ==
    /\ pc = "unit"
    /\ UNCHANGED <<parse_vars, validate_vars, update_vars, wokwi_vars, quick_vars>>
    /\ \E o \in StageOutcomes :
        /\ Invoke("unit", o)
        /\ IF blocks(o) THEN pc' = "blocked" /\ UNCHANGED <<unit_result, exit_codes>>
           ELSE IF propagates(o) THEN Raise /\ UNCHANGED unit_result
           ELSE /\ unit_result' = returncode_ok(o)
                /\ IF Mode = "full"
                   THEN pc' = proceed(unit_result', "integration") /\ UNCHANGED exit_codes
                   ELSE Return(exit_status(unit_result'))
    /\ UNCHANGED <<args, integration_result, performance_result, memory_result,
                   coverage_generated, coverage_data, coverage_passed, overall_result,
                   report_file>>

RunIntegration ==
    /\ pc = "integration"
    /\ UNCHANGED <<parse_vars, validate_vars, update_vars, wokwi_vars, quick_vars>>
    /\ \E o \in StageOutcomes :
        /\ Invoke("integration", o)
        /\ IF blocks(o) THEN pc' = "blocked" /\ UNCHANGED <<integration_result, exit_codes>>
           ELSE IF propagates(o) THEN Raise /\ UNCHANGED integration_result
           ELSE /\ integration_result' = returncode_ok(o)
                /\ IF Mode = "full"
                   THEN pc' = proceed(integration_result', "performance")
                        /\ UNCHANGED exit_codes
                   ELSE Return(exit_status(integration_result'))
    /\ UNCHANGED <<args, unit_result, performance_result, memory_result,
                   coverage_generated, coverage_data, coverage_passed, overall_result,
                   report_file>>

RunPerformance ==
    /\ pc = "performance"
    /\ UNCHANGED <<parse_vars, validate_vars, update_vars, wokwi_vars, quick_vars>>
    /\ IF Mode = "full" /\ args.skip_performance
       THEN /\ performance_result' = skipped_default
            /\ pc' = "memory"
            /\ UNCHANGED <<exit_codes, invoked>>
       ELSE \E o \in StageOutcomes :
            /\ Invoke("performance", o)
            /\ IF blocks(o) THEN pc' = "blocked" /\ UNCHANGED <<performance_result, exit_codes>>
               ELSE IF propagates(o) THEN Raise /\ UNCHANGED performance_result
               ELSE /\ performance_result' = returncode_ok(o)
                    /\ IF Mode = "full"
                       THEN pc' = proceed(performance_result', "memory")
                            /\ UNCHANGED exit_codes
                       ELSE Return(exit_status(performance_result'))
    /\ UNCHANGED <<args, unit_result, integration_result, memory_result,
                   coverage_generated, coverage_data, coverage_passed, overall_result,
                   report_file>>

RunMemory ==
    /\ pc = "memory"
    /\ UNCHANGED <<parse_vars, validate_vars, update_vars, wokwi_vars, quick_vars>>
    /\ IF Mode = "full" /\ args.skip_memory
       THEN /\ memory_result' = skipped_default
            /\ pc' = "coverage"
            /\ UNCHANGED <<exit_codes, invoked>>
       ELSE \E o \in StageOutcomes :
            /\ Invoke("memory", o)
            /\ IF blocks(o) THEN pc' = "blocked" /\ UNCHANGED <<memory_result, exit_codes>>
               ELSE IF propagates(o) THEN Raise /\ UNCHANGED memory_result
               ELSE /\ memory_result' = returncode_ok(o)
                    /\ IF Mode = "full"
                       THEN pc' = proceed(memory_result', "coverage")
                            /\ UNCHANGED exit_codes
                       ELSE Return(exit_status(memory_result'))
    /\ UNCHANGED <<args, unit_result, integration_result, performance_result,
                   coverage_generated, coverage_data, coverage_passed, overall_result,
                   report_file>>

GenerateCoverage ==
    /\ pc = "coverage"
    /\ UNCHANGED <<parse_vars, validate_vars, update_vars, wokwi_vars, quick_vars>>
    /\ \E o \in CoverageOutcomes :
        /\ Invoke("coverage", o)
        /\ coverage_generated' = generate_coverage_report(o)
    /\ pc' = "parse"
    /\ UNCHANGED <<args, unit_result, integration_result, performance_result,
                   memory_result, coverage_data, coverage_passed, overall_result,
                   report_file, exit_codes>>

\* coverage_data = self.parse_coverage_results() if coverage_generated else None
ParseCoverage ==
    /\ pc = "parse"
    /\ UNCHANGED <<parse_vars, validate_vars, update_vars, wokwi_vars, quick_vars>>
    /\ IF coverage_generated
       THEN /\ Invoke("parse", "called")
            /\ coverage_data' \in ParseOutcomes
       ELSE /\ coverage_data' = None
            /\ UNCHANGED invoked
    /\ pc' = "validate"
    /\ UNCHANGED <<args, unit_result, integration_result, performance_result,
                   memory_result, coverage_generated, coverage_passed, overall_result,
                   report_file, exit_codes>>

ValidateCoverage ==
    /\ pc = "validate"
    /\ UNCHANGED <<parse_vars, validate_vars, update_vars, wokwi_vars, quick_vars>>
    /\ Invoke("validate", "called")
    /\ coverage_passed' = validate_coverage_thresholds(coverage_data)
    /\ pc' = "report"
    /\ UNCHANGED <<args, unit_result, integration_result, performance_result,
                   memory_result, coverage_generated, coverage_data, overall_result,
                   report_file, exit_codes>>

\* generate_test_report: running date or opening the file may raise, and
\* nothing is written then.
GenerateReport ==
    /\ pc = "report"
    /\ UNCHANGED <<parse_vars, validate_vars, update_vars, wokwi_vars, quick_vars>>
    /\ \E o \in {"ok", "error"}, ts \in Timestamps :
        /\ Invoke("report", o)
        /\ IF o = "error" THEN Raise /\ UNCHANGED report_file
           ELSE /\ report_file' = Append(report_file,
                        test_report(unit_result, integration_result, coverage_data,
                                    performance_result, memory_result, ts))
                /\ pc' = "summary"
                /\ UNCHANGED exit_codes
    /\ UNCHANGED <<args, unit_result, integration_result, performance_result,
                   memory_result, coverage_generated, coverage_data, coverage_passed,
                   overall_result>>

\* The summary, overall_result and the return of run_all_tests.
Summary ==
    /\ pc = "summary"
    /\ UNCHANGED <<parse_vars, validate_vars, update_vars, wokwi_vars, quick_vars>>
    /\ overall_result' = overall(unit_result, integration_result, performance_result,
                                 memory_result, coverage_generated, coverage_passed)
    /\ Return(exit_status(overall_result'))
    /\ UNCHANGED <<args, unit_result, integration_result, performance_result,
                   memory_result, coverage_generated, coverage_data, coverage_passed,
                   report_file, invoked>>

Init ==
    /\ \E a \in ArgSets : PipelineStart(a)
    /\ ParseIdle /\ ValidateIdle /\ UpdateIdle /\ WokwiStart /\ QuickStart

Next ==
    \/ Main
    \/ Setup
    \/ RunUnit
    \/ RunIntegration
    \/ RunPerformance
    \/ RunMemory
    \/ GenerateCoverage
    \/ ParseCoverage
    \/ ValidateCoverage
    \/ GenerateReport
    \/ Summary

Spec == Init /\ [][Next]_vars

(***************************************************************************)
(* One call of parse_coverage_results on each modelled input.              *)
(***************************************************************************)
InitParse ==
    /\ PipelineStart(NoArgs)
    /\ ValidateIdle /\ UpdateIdle /\ WokwiStart /\ QuickStart
    /\ parse_pc = "call"
    /\ parse_result = None
    /\ \/ /\ coverage_file_exists = TRUE
          /\ lcov_launched = TRUE
          /\ lcov_stdout \in Texts
       \/ /\ coverage_file_exists \in BOOLEAN
          /\ lcov_launched = FALSE
          /\ lcov_stdout = <<>>
       \/ /\ coverage_file_exists = FALSE
          /\ lcov_launched = TRUE
          /\ lcov_stdout = <<>>

ParseCall ==
    /\ parse_pc = "call"
    /\ parse_result' = parse_coverage_results(coverage_file_exists, lcov_launched,
                                              lcov_stdout)
    /\ parse_pc' = "returned"
    /\ UNCHANGED <<coverage_file_exists, lcov_launched, lcov_stdout>>
    /\ UNCHANGED <<pipeline_vars, validate_vars, update_vars, wokwi_vars, quick_vars>>

NextParse == ParseCall

SpecParse == InitParse /\ [][NextParse]_vars

(***************************************************************************)
(* One call of validate_coverage_thresholds on each modelled input.        *)
(***************************************************************************)
InitValidate ==
    /\ PipelineStart(NoArgs)
    /\ ParseIdle /\ UpdateIdle /\ WokwiStart /\ QuickStart
    /\ validate_pc = "call"
    /\ validate_result = FALSE
    /\ validate_input \in {None} \cup {Dict(d) : d \in MetricSets}

ValidateCall ==
    /\ validate_pc = "call"
    /\ validate_result' = validate_coverage_thresholds(validate_input)
    /\ validate_pc' = "returned"
    /\ UNCHANGED validate_input
    /\ UNCHANGED <<pipeline_vars, parse_vars, update_vars, wokwi_vars, quick_vars>>

NextValidate == ValidateCall

SpecValidate == InitValidate /\ [][NextValidate]_vars

(***************************************************************************)
(* update_test_phases as a function: calls made with one line on one dict. *)
(***************************************************************************)
InitPhases ==
    /\ PipelineStart(NoArgs)
    /\ ParseIdle /\ ValidateIdle /\ WokwiStart /\ QuickStart
    /\ upd_calls = 0
    /\ upd_line \in SerialLines
    /\ upd_before \in PhaseStates
    /\ upd_phases = upd_before

UpdateCall ==
    /\ upd_calls < MaxCalls
    /\ upd_calls' = upd_calls + 1
    /\ upd_before' = upd_phases
    /\ upd_phases' = update_test_phases(upd_line, upd_phases)
    /\ UNCHANGED upd_line
    /\ UNCHANGED <<pipeline_vars, parse_vars, validate_vars, wokwi_vars, quick_vars>>

NextPhases == UpdateCall

SpecPhases == InitPhases /\ [][NextPhases]_vars

(***************************************************************************)
(* integration_test.py: main(), run_full_test and run_wokwi_test.          *)
(***************************************************************************)
\* sys.exit(code), or an exception that main() turns into sys.exit(1).
WExit(code) == w_pc' = "exited" /\ w_exit_codes' = Append(w_exit_codes, code)

FirmwareOutcomes == {"exists", "built", "build_failed", "pio_missing"}

\* run_wokwi_test succeeding only when every phase is complete as well.
session_result_all_phases(rc, phases) ==
    rc = 0 /\ \A ph \in DOMAIN phases : phases[ph]

\* The value run_wokwi_test returns after the summary:
\* process.returncode == 0; test_phases is printed only.
session_result(rc, phases) == rc = 0

\* main(): sys.exit(0 if success else 1)
sys_exit_code(success) == IF success THEN 0 ELSE 1
ReturnCodes == {0, 1}

\* test = ClarityIntegrationTest(): find_wokwi_cli returns a path or raises
\* FileNotFoundError, which main() catches.
WConstruct ==
    /\ w_pc = "main"
    /\ UNCHANGED <<pipeline_vars, parse_vars, validate_vars, update_vars, quick_vars>>
    /\ \E found \in BOOLEAN :
        IF found THEN w_pc' = "full_test" /\ UNCHANGED w_exit_codes
        ELSE WExit(1)
    /\ UNCHANGED <<test_phases, sim, process_bound, returncode, interrupt_at, triggered>>

\* run_full_test up to the call of run_wokwi_test.
WFirmware ==
    /\ w_pc = "full_test"
    /\ UNCHANGED <<pipeline_vars, parse_vars, validate_vars, update_vars, quick_vars>>
    /\ \E o \in FirmwareOutcomes :
        IF o \in {"exists", "built"} THEN w_pc' = "start" /\ UNCHANGED w_exit_codes
        ELSE WExit(1)
    /\ UNCHANGED <<test_phases, sim, process_bound, returncode, interrupt_at, triggered>>

\* run_wokwi_test up to the try statement: test_phases is created.
WStart ==
    /\ w_pc = "start"
    /\ UNCHANGED <<pipeline_vars, parse_vars, validate_vars, update_vars, quick_vars>>
    /\ test_phases' = initial_test_phases
    /\ w_pc' = "popen"
    /\ UNCHANGED <<sim, process_bound, returncode, w_exit_codes, interrupt_at, triggered>>

\* process = subprocess.Popen(...); a failure to launch is caught by
\* "except Exception" and run_wokwi_test returns False.
WPopen ==
    /\ w_pc = "popen"
    /\ UNCHANGED <<pipeline_vars, parse_vars, validate_vars, update_vars, quick_vars>>
    /\ \E launched \in BOOLEAN :
        IF launched
        THEN /\ sim' = "running"
             /\ process_bound' = TRUE
             /\ w_pc' = "stream"
             /\ UNCHANGED w_exit_codes
        ELSE /\ WExit(1)
             /\ UNCHANGED <<sim, process_bound>>
    /\ UNCHANGED <<test_phases, returncode, interrupt_at, triggered>>

\* One iteration of "for line in process.stdout".
WReadLine ==
    /\ w_pc = "stream"
    /\ UNCHANGED <<pipeline_vars, parse_vars, validate_vars, update_vars, quick_vars>>
    /\ \E line \in SerialLines :
        /\ test_phases' = update_test_phases(line, test_phases)
        /\ triggered' = triggered \cup
                {ph \in DOMAIN patterns :
                    \E i \in 1..Len(line), k \in 1..Len(patterns[ph]) :
                        line[i] = patterns[ph][k]}
    /\ UNCHANGED <<w_pc, sim, process_bound, returncode, w_exit_codes, interrupt_at>>

\* process.stdout reaches its end and the loop is left.
WEndOfOutput ==
    /\ w_pc = "stream"
    /\ UNCHANGED <<pipeline_vars, parse_vars, validate_vars, update_vars, quick_vars>>
    /\ w_pc' = "wait"
    /\ UNCHANGED <<test_phases, sim, process_bound, returncode, w_exit_codes,
                   interrupt_at, triggered>>

\* process.wait() returns when the simulator has exited.
WWait ==
    /\ w_pc = "wait"
    /\ UNCHANGED <<pipeline_vars, parse_vars, validate_vars, update_vars, quick_vars>>
    /\ \E rc \in ReturnCodes :
        /\ sim' = "exited"
        /\ returncode' = <<rc>>
    /\ w_pc' = "summary"
    /\ UNCHANGED <<test_phases, process_bound, w_exit_codes, interrupt_at, triggered>>

\* print_test_summary, return process.returncode == 0, and in main()
\* sys.exit(0 if success else 1).
WSummary ==
    /\ w_pc = "summary"
    /\ UNCHANGED <<pipeline_vars, parse_vars, validate_vars, update_vars, quick_vars>>
    /\ WExit(sys_exit_code(session_result(returncode[1], test_phases)))
    /\ UNCHANGED <<test_phases, sim, process_bound, returncode, interrupt_at, triggered>>

\* process.terminate(): SIGTERM to a simulator that has not been waited for.
terminate(state) == IF state = "running" THEN "terminated" ELSE state

\* KeyboardInterrupt.  Inside the try statement the handler calls
\* process.terminate() and returns False; when process is not assigned yet
\* that call raises UnboundLocalError, which main() catches, and the child,
\* if Popen had already started it, is not signalled.  Outside the try
\* statement KeyboardInterrupt is not an Exception, so main() does not catch
\* it and the interpreter ends on it.
WInterrupt ==
    /\ w_pc # "exited"
    /\ interrupt_at = ""
    /\ UNCHANGED <<pipeline_vars, parse_vars, validate_vars, update_vars, quick_vars>>
    /\ interrupt_at' = w_pc
    /\ IF w_pc \in {"popen", "stream", "wait", "summary"}
       THEN /\ \E started \in BOOLEAN :
                LET child == IF w_pc = "popen" /\ started THEN "running" ELSE sim
                IN  sim' = IF process_bound THEN terminate(child) ELSE child
            /\ WExit(1)
       ELSE /\ UNCHANGED sim
            /\ WExit(130)
    /\ UNCHANGED <<test_phases, process_bound, returncode, triggered>>

InitWokwi ==
    /\ PipelineStart(NoArgs)
    /\ ParseIdle /\ ValidateIdle /\ UpdateIdle
    /\ WokwiStart /\ QuickStart

NextWokwi ==
    \/ WConstruct
    \/ WFirmware
    \/ WStart
    \/ WPopen
    \/ WReadLine
    \/ WEndOfOutput
    \/ WWait
    \/ WSummary
    \/ WInterrupt

SpecWokwi == InitWokwi /\ [][NextWokwi]_vars

(***************************************************************************)
(* quick_test.py: run_command and main().                                  *)
(***************************************************************************)
\* The timeout main() passes to run_command, in seconds; 0 stands for None.
NoTimeout == 0
step_timeout ==
    [pio_check |-> NoTimeout, wokwi_check |-> NoTimeout, build |-> 120, simulation |-> 450]

\* Exit statuses of the shell: success, failure, command not found.
ShellStatuses == {0, 1, 127}

\* What subprocess.run(cmd, shell=True, timeout=timeout, ...) can do: the
\* shell exits with a status and some or no text on stderr, the timeout
\* expires, the call raises another exception (cwd is missing), or, without
\* a timeout, the command never exits.
CommandOutcomes(timeout) ==
    {[kind |-> "exit", returncode |-> rc, stderr |-> e] : rc \in ShellStatuses, e \in BOOLEAN}
    \cup {[kind |-> "raise", returncode |-> 0, stderr |-> FALSE]}
    \cup (IF timeout = NoTimeout
          THEN {[kind |-> "hang", returncode |-> 0, stderr |-> FALSE]}
          ELSE {[kind |-> "timeout", returncode |-> 0, stderr |-> FALSE]})

\* subprocess.run does not return when the command never exits.
never_returns(outcome) == outcome.kind = "hang"

\* run_command: True when the command exits with status zero; False when it
\* exits nonzero, on TimeoutExpired and on any other Exception.
run_command(outcome) ==
    IF outcome.kind = "exit" THEN outcome.returncode = 0
    ELSE IF outcome.kind = "timeout" THEN FALSE
    ELSE FALSE

\* main() going on to the next step whatever the result of the step.
after_step_continue(result, next) == next

\* main(): "if not run_command(...): return False".
after_step(result, next) == IF result THEN next ELSE "returned"

\* One call of run_command made by main() for a step that is followed by
\* another one.
QStep(step, next) ==
    /\ q_pc = step
    /\ UNCHANGED <<pipeline_vars, parse_vars, validate_vars, update_vars, wokwi_vars>>
    /\ \E o \in CommandOutcomes(step_timeout[step]) :
        /\ q_steps' = Append(q_steps, [step |-> step, outcome |-> o])
        /\ IF never_returns(o)
           THEN q_pc' = "blocked" /\ UNCHANGED q_success
           ELSE /\ q_pc' = after_step(run_command(o), next)
                /\ q_success' = IF q_pc' = "returned" THEN <<FALSE>> ELSE q_success
    /\ UNCHANGED q_exit_codes

QPioCheck == QStep("pio_check", "wokwi_check")
QWokwiCheck == QStep("wokwi_check", "build")
QBuild == QStep("build", "simulation")

\* success = run_command(...simulation...); return success
QSimulation ==
    /\ q_pc = "simulation"
    /\ UNCHANGED <<pipeline_vars, parse_vars, validate_vars, update_vars, wokwi_vars>>
    /\ \E o \in CommandOutcomes(step_timeout["simulation"]) :
        /\ q_steps' = Append(q_steps, [step |-> "simulation", outcome |-> o])
        /\ IF never_returns(o)
           THEN q_pc' = "blocked" /\ UNCHANGED q_success
           ELSE q_pc' = "returned" /\ q_success' = <<run_command(o)>>
    /\ UNCHANGED q_exit_codes

\* success = main(); sys.exit(0 if success else 1)
QExit ==
    /\ q_pc = "returned"
    /\ UNCHANGED <<pipeline_vars, parse_vars, validate_vars, update_vars, wokwi_vars>>
    /\ q_exit_codes' = Append(q_exit_codes, IF q_success[1] THEN 0 ELSE 1)
    /\ q_pc' = "exited"
    /\ UNCHANGED <<q_steps, q_success>>

InitQuick ==
    /\ PipelineStart(NoArgs)
    /\ ParseIdle /\ ValidateIdle /\ UpdateIdle /\ WokwiStart
    /\ QuickStart

NextQuick ==
    \/ QPioCheck
    \/ QWokwiCheck
    \/ QBuild
    \/ QSimulation
    \/ QExit

SpecQuick == InitQuick /\ [][NextQuick]_vars

(***************************************************************************)
(* Properties.                                                             *)
(***************************************************************************)
Terminal == {"done", "raised"}
OutcomeOf(step) == invoked[CHOOSE k \in 1..Len(invoked) : invoked[k].step = step].outcome
SetupSucceeded == \E k \in 1..Len(invoked) : invoked[k] = [step |-> "setup", outcome |-> "ok"]
CoverageFailed ==
    \E k \in 1..Len(invoked) :
        invoked[k].step = "coverage" /\ invoked[k].outcome \in {"nofiles", "error"}

\* C1: a full run that returns has exit code 0 exactly when the unit,
\* integration, performance and memory flags are all true, coverage generation
\* succeeded and threshold validation passed, and exit code 1 otherwise.
C1_ExitCodeZeroIffAllPassed ==
    (Mode = "full" /\ pc = "done") =>
        /\ Len(exit_codes) = 1
        /\ exit_codes[1] \in {0, 1}
        /\ (exit_codes[1] = 0) <=>
               (/\ unit_result
                /\ integration_result
                /\ performance_result
                /\ memory_result
                /\ coverage_generated
                /\ coverage_passed)

C1_Witness == Mode = "full" /\ pc = "done" /\ exit_codes = <<0>>

\* C2: a full run is not fail-fast: once it is past the coverage step, every
\* stage that is not skipped and the coverage generation have been invoked,
\* whichever stages failed, and the report written at the end records the
\* result of each of them.
C2_NotFailFast ==
    (Mode = "full" /\ pc \in {"parse", "validate", "report", "summary", "done"}) =>
        /\ WasInvoked("unit")
        /\ WasInvoked("integration")
        /\ (~args.skip_performance => WasInvoked("performance"))
        /\ (~args.skip_memory => WasInvoked("memory"))
        /\ WasInvoked("coverage")
        /\ (pc = "done" =>
               /\ Len(report_file) = 1
               /\ report_file[1].test_results.unit_tests
                      = pass_fail(OutcomeOf("unit") = "zero")
               /\ report_file[1].test_results.integration_tests
                      = pass_fail(OutcomeOf("integration") = "zero")
               /\ (~args.skip_performance =>
                      report_file[1].test_results.performance_tests
                          = pass_fail(OutcomeOf("performance") = "zero"))
               /\ (~args.skip_memory =>
                      report_file[1].test_results.memory_tests
                          = pass_fail(OutcomeOf("memory") = "zero")))

C2_Witness ==
    /\ Mode = "full" /\ pc = "done"
    /\ ~args.skip_performance /\ ~args.skip_memory
    /\ OutcomeOf("unit") = "nonzero"
    /\ OutcomeOf("integration") = "nonzero"
    /\ OutcomeOf("performance") = "nonzero"
    /\ OutcomeOf("memory") = "nonzero"
    /\ WasInvoked("coverage")

\* C3: every full run (whose setup succeeded) ends in DONE having written the
\* report exactly once and returned an exit code, whatever the stages and
\* the coverage step did.
C3_AlwaysDoneWithReport ==
    (Mode = "full" /\ pc \in Terminal /\ SetupSucceeded) =>
        /\ pc = "done"
        /\ Len(report_file) = 1
        /\ Len(exit_codes) = 1

\* C4: when the build/test tool cannot be started for a stage of a full run,
\* the stage counts as failed and nothing is raised: the run goes on through
\* the later stages and ends with exit code 1.
C4_LaunchFaultIsFailedResult ==
    \A k \in 1..Len(invoked) :
        (Mode = "full" /\ invoked[k].step \in Stages /\ invoked[k].outcome = "notfound") =>
            /\ pc # "raised"
            /\ (pc = "done" =>
                   /\ exit_codes = <<1>>
                   /\ WasInvoked("integration")
                   /\ (~args.skip_performance => WasInvoked("performance"))
                   /\ (~args.skip_memory => WasInvoked("memory")))

\* C5: when coverage generation fails in a full run (no instrumentation files,
\* or an error), the coverage parser is not called, threshold validation
\* yields failed and the overall verdict is false (exit code 1) whatever the
\* four stage results are.
C5_CoverageNeverVacuous ==
    (Mode = "full" /\ CoverageFailed) =>
        /\ ~WasInvoked("parse")
        /\ (pc \in {"validate", "report", "summary", "done"} => coverage_data = None)
        /\ (pc \in {"report", "summary", "done"} => ~coverage_passed)
        /\ (pc = "done" => ~overall_result /\ exit_codes = <<1>>)

C5_Witness ==
    /\ Mode = "full" /\ pc = "done" /\ CoverageFailed
    /\ unit_result /\ integration_result /\ performance_result /\ memory_result
    /\ exit_codes = <<1>>

\* C6: in a full run a skipped performance or memory stage is never invoked,
\* is written as PASS in the report, and leaves the verdict to the other
\* flags: the verdict is the one of the run in which that stage passed.
C6_SkippedStagePasses ==
    Mode = "full" =>
        /\ (args.skip_performance => ~WasInvoked("performance"))
        /\ (args.skip_memory => ~WasInvoked("memory"))
        /\ ((pc = "done" /\ args.skip_performance) =>
               /\ report_file[1].test_results.performance_tests = "PASS"
               /\ overall_result = (/\ unit_result /\ integration_result /\ memory_result
                                    /\ coverage_generated /\ coverage_passed))
        /\ ((pc = "done" /\ args.skip_memory) =>
               /\ report_file[1].test_results.memory_tests = "PASS"
               /\ overall_result = (/\ unit_result /\ integration_result
                                    /\ performance_result
                                    /\ coverage_generated /\ coverage_passed))

C6_Witness ==
    /\ Mode = "full" /\ pc = "done"
    /\ args.skip_performance /\ args.skip_memory
    /\ overall_result /\ exit_codes = <<0>>

\* The measured value of a metric, an unmeasured metric counting as 0.
Actual(d, m) == IF m \in DOMAIN d THEN d[m] ELSE 0
ExampleMetrics == [line_coverage |-> 90, function_coverage |-> 93, branch_coverage |-> 85]
ThresholdMetrics == [line_coverage |-> 85, function_coverage |-> 95, branch_coverage |-> 80]

\* C7: validate_coverage_thresholds returns the AND over the three metrics of
\* actual >= threshold (equality passes), an unmeasured metric counting as 0;
\* line 90, function 93, branch 85 fails.
C7_ThresholdValidation ==
    (validate_pc = "returned" /\ ~validate_input.isNone) =>
        /\ validate_result =
               (\A m \in MetricNames : Actual(validate_input.data, m) >= ThresholdMetrics[m])
        /\ (validate_input.data = ExampleMetrics => ~validate_result)

C7_Witness ==
    /\ validate_pc = "returned"
    /\ validate_input = Dict(ThresholdMetrics)
    /\ validate_result

\* The summary read line by line, a line ending at a newline character.
SummaryLines(text) == split(text, NL)
HasBSN(text) == \E k \in 1..Len(text) : text[k] = BSN
LabelFor == [line_coverage |-> LinesLabel, function_coverage |-> FunctionsLabel,
             branch_coverage |-> BranchesLabel]
Labelled(line) == \E l \in Labels : contains(l, line)
PercentWords(line) == SelectSeq(split_whitespace(line),
                                LAMBDA w : w # <<>> /\ w[Len(w)] = "%")
NumericPercent(line) ==
    /\ PercentWords(line) # <<>>
    /\ is_float(rstrip(PercentWords(line)[1], "%"))
PercentValue(line) == float(rstrip(PercentWords(line)[1], "%"))
Malformed(line) == Labelled(line) /\ ~NumericPercent(line)
Recording(text, m) ==
    {k \in 1..Len(SummaryLines(text)) :
        /\ contains(LabelFor[m], SummaryLines(text)[k])
        /\ NumericPercent(SummaryLines(text)[k])}
LastOf(S) == CHOOSE k \in S : \A j \in S : j <= k
ExpectedMetrics(text) ==
    [m \in {x \in MetricNames : Recording(text, x) # {}} |->
        PercentValue(SummaryLines(text)[LastOf(Recording(text, m))])]
Parsed == parse_pc = "returned" /\ coverage_file_exists /\ lcov_launched

\* C8: the parser reads the summary line by line: each line with a label
\* records its first percentage token under the metric of the label, a later
\* line with the same label overwrites it, lines with no label are ignored;
\* a summary with one line per label yields all three metrics.
C8_LineByLine ==
    (/\ Parsed
     /\ ~HasBSN(lcov_stdout)
     /\ \A k \in 1..Len(SummaryLines(lcov_stdout)) : ~Malformed(SummaryLines(lcov_stdout)[k]))
        => parse_result = Dict(ExpectedMetrics(lcov_stdout))

\* C9: a labelled line whose percentage token is not numeric does not abort
\* the parse: the result is a metric set that holds the metric of every
\* well-formed labelled line.
C9_MalformedTokenSkipped ==
    (/\ Parsed
     /\ ~HasBSN(lcov_stdout)
     /\ \E k \in 1..Len(SummaryLines(lcov_stdout)) : Malformed(SummaryLines(lcov_stdout)[k]))
        => /\ ~parse_result.isNone
           /\ \A m \in DOMAIN ExpectedMetrics(lcov_stdout) : m \in DOMAIN parse_result.data

\* C10: parsing an empty summary, or one with no recognized label, returns the
\* empty metric set, which is not the value returned when the coverage file
\* is absent (None).
C10_EmptyIsNotAbsent ==
    parse_pc = "returned" =>
        /\ (~coverage_file_exists => parse_result = None)
        /\ ((Parsed /\ \A l \in Labels : ~contains(l, lcov_stdout)) =>
               /\ parse_result = Dict(EmptyDict)
               /\ parse_result # parse_coverage_results(FALSE, lcov_launched, lcov_stdout))

C10_Witness ==
    /\ Parsed
    /\ lcov_stdout = <<>>
    /\ parse_result = Dict(EmptyDict)

\* The steps of a full run in the order of the statements of run_all_tests.
StepOrder == <<"setup", "unit", "integration", "performance", "memory",
               "coverage", "parse", "validate", "report">>
Rank(step) == CHOOSE k \in 1..Len(StepOrder) : StepOrder[k] = step
StepsTaken == {invoked[k].step : k \in 1..Len(invoked)}
Skipped(stage) ==
    \/ stage = "performance" /\ args.skip_performance
    \/ stage = "memory" /\ args.skip_memory

\* C16: a full run is linear and sequential: the steps taken follow the order
\* setup, unit, integration, performance, memory, coverage generation,
\* parsing, validation, report; no step is taken twice; a step starts only
\* when every earlier one has finished; a run that returns has taken every
\* step except a skipped stage and the parsing of a coverage that was not
\* generated.
C16_StrictlyLinear ==
    Mode = "full" =>
        /\ \A i, j \in 1..Len(invoked) :
               i < j => Rank(invoked[i].step) < Rank(invoked[j].step)
        /\ \A i \in 1..Len(invoked) : i < Len(invoked) => invoked[i].outcome # "hang"
        /\ (pc = "done" =>
               StepsTaken = {StepOrder[k] : k \in 1..Len(StepOrder)}
                                \ ({st \in Stages : Skipped(st)}
                                   \cup (IF CoverageFailed THEN {"parse"} ELSE {})))

C16_Witness == Mode = "full" /\ pc = "done" /\ Len(invoked) = Len(StepOrder)

ReportField(report, stage) ==
    IF stage = "unit" THEN report.test_results.unit_tests
    ELSE IF stage = "integration" THEN report.test_results.integration_tests
    ELSE IF stage = "performance" THEN report.test_results.performance_tests
    ELSE report.test_results.memory_tests

\* C17: in the written report each stage is "PASS" exactly when its invocation
\* exited with status zero or the stage was skipped, and "FAIL" otherwise; a
\* run whose unit stage exits nonzero has unit_tests "FAIL" and ends with
\* the verdict false.
C17_ReportMatchesExitStatus ==
    (Mode = "full" /\ report_file # <<>>) =>
        /\ \A st \in Stages :
               ReportField(report_file[1], st) =
                   (IF Skipped(st) \/ OutcomeOf(st) = "zero" THEN "PASS" ELSE "FAIL")
        /\ (OutcomeOf("unit") = "nonzero" =>
               /\ report_file[1].test_results.unit_tests = "FAIL"
               /\ (pc = "done" => ~overall_result /\ exit_codes = <<1>>))

C17_Witness ==
    /\ Mode = "full" /\ pc = "done"
    /\ ~args.skip_performance /\ ~args.skip_memory
    /\ OutcomeOf("unit") = "nonzero"
    /\ OutcomeOf("integration") = "zero"
    /\ OutcomeOf("performance") = "zero"
    /\ OutcomeOf("memory") = "zero"
    /\ coverage_passed
    /\ report_file[1].test_results.unit_tests = "FAIL"
    /\ exit_codes = <<1>>

\* C18: a stage invocation of a full run that does not finish is cut off by a
\* timeout and counts as a failed stage: the run is not held in it, and goes
\* on to DONE.
C18_HangIsFailedStage ==
    \A k \in 1..Len(invoked) :
        (Mode = "full" /\ invoked[k].step \in Stages /\ invoked[k].outcome = "hang") =>
            pc # "blocked"

HasSelector ==
    args.unit_only \/ args.integration_only \/ args.performance_only \/ args.memory_only
HasSkip == args.skip_performance \/ args.skip_memory
SelectedStage ==
    IF Mode = "unit_only" THEN "unit"
    ELSE IF Mode = "integration_only" THEN "integration"
    ELSE IF Mode = "performance_only" THEN "performance"
    ELSE "memory"

\* C20 as stated: a command line that combines a single-category selector
\* with a skip flag is not accepted.
C20_SelectorExcludesSkip ==
    (HasSelector /\ HasSkip /\ pc # "main") => pc = "rejected"

\* C20 as amended: every command line is accepted and selects one mode: the
\* full run when no selector is given, otherwise the category of the first
\* selector, which alone is invoked, once; a skip flag given with a selector
\* is accepted and changes nothing.
C20_SelectorWithSkipAccepted ==
    pc # "main" =>
        /\ pc # "rejected"
        /\ (Mode = "full" <=> ~HasSelector)
        /\ (HasSelector =>
               /\ StepsTaken \subseteq {SelectedStage}
               /\ Len(invoked) <= 1
               /\ (pc = "done" => Len(invoked) = 1))

C20_Witness ==
    /\ args.performance_only /\ args.skip_performance
    /\ pc = "done"
    /\ StepsTaken = {"performance"}

(***************************************************************************)
(* Properties of the phase tracker and of the simulated session.           *)
(***************************************************************************)
FivePhases == {"startup", "sensor_interaction", "theme_trigger", "error_system",
               "configuration"}
Completed(phases) == {ph \in FivePhases : ph \in DOMAIN phases /\ phases[ph]}
TriggersOf(ph) == {patterns[ph][k] : k \in 1..Len(patterns[ph])}
HasTrigger(line, ph) == \E i \in 1..Len(line) : line[i] \in TriggersOf(ph)

\* C11: all phases start not complete, and over any sequence of lines read
\* from the simulator the set of completed phases never shrinks: no step
\* resets a completed phase.
C11_Monotonic ==
    /\ [](w_pc = "popen" => Completed(test_phases) = {})
    /\ [][Completed(test_phases) \subseteq Completed(test_phases')]_vars

C11_Witness ==
    w_pc = "wait" /\ Completed(test_phases) = FivePhases

\* C12: after update_test_phases(line) a phase is complete exactly when it
\* was complete before or the line contains one of its triggers, each phase
\* being decided on its own.
C12_CompleteIffBeforeOrTrigger ==
    upd_calls >= 1 =>
        \A ph \in FivePhases :
            upd_phases[ph] <=> (upd_before[ph] \/ HasTrigger(upd_line, ph))

C12_Witness ==
    /\ upd_calls = 1
    /\ upd_line = <<"SplashPanel loaded successfully", "Config panel">>
    /\ Completed(upd_before) = {}
    /\ Completed(upd_phases) = {"startup", "configuration"}

\* C13: a second call with the same line leaves the dict as the first call
\* left it, and a call with a line that contains no trigger leaves the dict
\* as it was.
C13_IdempotentAndNoOp ==
    /\ upd_calls >= 2 => upd_phases = upd_before
    /\ (upd_calls >= 1 /\ \A ph \in FivePhases : ~HasTrigger(upd_line, ph))
            => upd_phases = upd_before

C13_Witness ==
    /\ upd_calls = 2
    /\ upd_line = <<"[1234] ", "SplashPanel loaded successfully">>
    /\ Completed(upd_phases) = {"startup"}

\* C14: whatever lines have been read, in whatever order and however often,
\* a phase is complete exactly when some line read so far contained one of
\* its triggers.
C14_CompleteIffObserved ==
    \A ph \in FivePhases : test_phases[ph] <=> ph \in triggered

C14_Witness ==
    /\ w_pc = "exited"
    /\ w_exit_codes = <<0>>
    /\ triggered = {"startup", "error_system"}
    /\ Completed(test_phases) = {"startup", "error_system"}

\* C15: at every point of the session the tracker holds exactly one boolean
\* for each of the five phases and nothing else.
C15_FiveBooleans ==
    /\ DOMAIN test_phases = FivePhases
    /\ \A ph \in FivePhases : test_phases[ph] \in BOOLEAN

C15_Witness ==
    /\ w_pc = "stream"
    /\ Completed(test_phases) = {"sensor_interaction", "theme_trigger"}

\* C19: when a KeyboardInterrupt arrives while the simulator is being
\* launched, between lines or during the wait, the simulator is not left
\* running and the interpreter ends with a nonzero status.
C19_InterruptTerminatesSimulator ==
    interrupt_at \in {"popen", "stream", "wait"} =>
        /\ sim # "running"
        /\ w_pc = "exited"
        /\ Len(w_exit_codes) = 1
        /\ w_exit_codes[1] # 0

(***************************************************************************)
(* Properties of the report, of the single-category modes and of the       *)
(* result of a simulated session.                                          *)
(***************************************************************************)
ReportKeys == {"test_results", "coverage", "timestamp"}

\* C21: the report written at the end of a full run holds the per-stage
\* results, the coverage metrics and the timestamp and, beside them, the
\* overall verdict, which is the one the exit code is taken from.
C21_ReportRecordsVerdict ==
    (Mode = "full" /\ pc = "done") =>
        /\ Len(report_file) = 1
        /\ ReportKeys \subseteq DOMAIN report_file[1]
        /\ (DOMAIN report_file[1]) \ ReportKeys # {}
        /\ exit_codes = <<exit_status(overall_result)>>

AllStagesPass(report) ==
    \A st \in Stages : ReportField(report, st) = "PASS"

\* C22: a full run that returns exit code 0 has written a report with PASS
\* for all four stages and with the three metrics in its coverage field,
\* each at or above its threshold (85, 95, 80); a run whose parsed coverage
\* data is None or empty returns 1.
C22_ExitZeroReport ==
    (Mode = "full" /\ pc = "done") =>
        /\ (exit_codes = <<0>> =>
               /\ Len(report_file) = 1
               /\ AllStagesPass(report_file[1])
               /\ \A m \in MetricNames :
                      /\ m \in DOMAIN report_file[1].coverage
                      /\ report_file[1].coverage[m] >= ThresholdMetrics[m])
        /\ ((coverage_data.isNone \/ coverage_data.data = EmptyDict) => exit_codes = <<1>>)

C22_Witness ==
    /\ Mode = "full" /\ pc = "done" /\ exit_codes = <<0>>
    /\ report_file[1].coverage =
           [line_coverage |-> 90, function_coverage |-> 96, branch_coverage |-> 90]

\* C23: a session that is not interrupted succeeds (main exits 0) exactly
\* when the simulator exited with status zero, whichever phases were
\* completed; a session in which no simulator exited fails.
C23_ResultIsExitStatus ==
    (w_pc = "exited" /\ interrupt_at = "") =>
        /\ Len(w_exit_codes) = 1
        /\ (w_exit_codes[1] = 0) <=> (returncode = <<0>>)
        /\ (w_exit_codes[1] # 0) => w_exit_codes[1] = 1

C23_Witness ==
    /\ w_pc = "exited" /\ interrupt_at = ""
    /\ returncode = <<0>>
    /\ Completed(test_phases) = {}
    /\ w_exit_codes = <<0>>

\* The first selector given, in the order unit, integration, performance,
\* memory.
FirstSelector ==
    IF args.unit_only THEN "unit"
    ELSE IF args.integration_only THEN "integration"
    ELSE IF args.performance_only THEN "performance"
    ELSE "memory"
Ended == pc \in {"done", "raised", "blocked"}

\* C24: with a selector on the command line, whatever other selectors and
\* skip flags are given, exactly the stage of the first selector is invoked,
\* once, and nothing else: no setup, no other stage, no coverage generation,
\* parsing or validation, no report; the run returns 0 exactly when that
\* stage exited with status zero, and 1 when it exited nonzero.
C24_SingleCategory ==
    HasSelector =>
        /\ Len(invoked) <= 1
        /\ StepsTaken \subseteq {FirstSelector}
        /\ report_file = <<>>
        /\ ~coverage_generated /\ ~coverage_passed /\ coverage_data = None
        /\ (Ended =>
               /\ Len(invoked) = 1
               /\ invoked[1].step = FirstSelector
               /\ (exit_codes = <<0>>) <=> (invoked[1].outcome = "zero")
               /\ (invoked[1].outcome = "nonzero" => pc = "done" /\ exit_codes = <<1>>))

C24_Witness ==
    /\ args.integration_only /\ args.memory_only /\ args.skip_memory
    /\ ~args.unit_only
    /\ pc = "done"
    /\ invoked = <<[step |-> "integration", outcome |-> "nonzero"]>>
    /\ exit_codes = <<1>>

(***************************************************************************)
(* Properties of the quick runner.                                         *)
(***************************************************************************)
QuickOrder == <<"pio_check", "wokwi_check", "build", "simulation">>
Succeeded(k) == q_steps[k].outcome.kind = "exit" /\ q_steps[k].outcome.returncode = 0

\* C25: the quick runner starts its four steps in the order PlatformIO check,
\* Wokwi CLI check, firmware build, simulation, each only when every earlier
\* one succeeded; a step that exits nonzero, times out or raises is a failed
\* step and nothing is propagated: main() returns False and the interpreter
\* exits 1; the run exits 0 exactly when all four steps succeeded.
C25_FailFast ==
    /\ Len(q_steps) <= Len(QuickOrder)
    /\ \A k \in 1..Len(q_steps) :
           /\ q_steps[k].step = QuickOrder[k]
           /\ k < Len(q_steps) => Succeeded(k)
    /\ (q_steps # <<>> /\ q_steps[Len(q_steps)].outcome.kind \in {"exit", "timeout", "raise"}
        /\ ~Succeeded(Len(q_steps)))
            => (q_pc \in {"returned", "exited"} /\ q_success = <<FALSE>>)
    /\ q_pc = "exited" =>
           /\ Len(q_exit_codes) = 1
           /\ q_exit_codes[1] \in {0, 1}
           /\ (q_exit_codes[1] = 0) <=>
                  (Len(q_steps) = Len(QuickOrder) /\ \A k \in 1..Len(q_steps) : Succeeded(k))

C25_Witness ==
    /\ q_pc = "exited"
    /\ Len(q_steps) = 3
    /\ q_steps[3].outcome.kind = "timeout"
    /\ q_exit_codes = <<1>>

====
